---- MODULE Spec2Model ----
(***************************************************************************)
(* The image-upload web application of src/main.py: process initialization *)
(* (secrets, storage client), the POST /upload pipeline (receive, save,    *)
(* caption, write metadata, persist image and metadata, cleanup) and the   *)
(* GET /view pipeline, over an object store (the GCS bucket) and the local *)
(* /tmp directory.                                                         *)
(*                                                                         *)
(* A file name is a pair <<stem, extension>>, so that os.path.splitext is  *)
(* computed and not assumed; the empty file name '' is <<"", "">>.  A path *)
(* under /tmp is <<"/tmp", stem, extension>>.                              *)
(*                                                                         *)
(* Failures of the outside world are inputs of the step that meets them,   *)
(* and they are the failures the source has a handler for: the AI service  *)
(* (upload_to_gemini, generative_ai), the storage writes (upload_to_gcs),  *)
(* the signed URL (generate_temporary_url), the secret fetches, and any    *)
(* exception inside upload()'s try block (file.save, open/json.dump).      *)
(***************************************************************************)
EXTENDS Naturals, Sequences, FiniteSets

\* ------------------------------------------------------------- bounds

\* Upload requests that pass validation in one behaviour.
MaxUploads == 2

\* ------------------------------------------------------------- inputs

EmptyName == <<"", "">>
\* File names of the images a client sends, with the extensions the gallery
\* lists as images (list_uploaded_images, line 109).  cat.jpg and cat.jpeg
\* share a stem, dog.jpg has one of its own.
Names == {<<"cat", ".jpg">>, <<"cat", ".jpeg">>, <<"dog", ".jpg">>}
\* The bytes of an uploaded file.
Bytes == {"img1", "img2"}

\* GCS_BUCKET_NAME as os.getenv returns it (None when the variable is unset).
BucketNames == {"None", "my-bucket"}

\* Worker threads of the web server.
Threads == {1, 2}

\* Python's None for temp_path and json_path.
NoPath == <<>>

\* ----------------------------------------------- files and JSON values

\* What a file (an object of the bucket, or a file under /tmp) holds.
SecretFile == [kind |-> "secret", bytes |-> "service account key", title |-> "", description |-> ""]
NoFile == [kind |-> "absent", bytes |-> "", title |-> "", description |-> ""]
ImageFile(b) == [kind |-> "image", bytes |-> b, title |-> "", description |-> ""]
\* A file left half written by a write that failed.
PartialFile == [kind |-> "partial", bytes |-> "", title |-> "", description |-> ""]

\* json.dump({"title": title, "description": description}, json_file)
JsonDump(title, description) ==
    [kind |-> "json", bytes |-> "", title |-> title, description |-> description]

\* A parsed JSON value: an object (a dict, with the keys it holds) or an array.
\* dict.get(key, default)
DictGet(d, key, default) == IF key \in d.keys THEN d[key] ELSE default

JsonObject(keys, title, description) ==
    [type |-> "object", keys |-> keys, title |-> title, description |-> description]
JsonArray == [type |-> "array", keys |-> {}, title |-> "", description |-> ""]

\* The texts the AI service answers with, as sequences of pieces: the code-fence
\* markers (three backticks followed by json, and three backticks) and payload.
FenceOpen == "<fence json>"
FenceClose == "<fence>"
ObjFull == "{\"title\": \"Cat\", \"description\": \"A cat.\"}"
ObjEmpty == "{}"
ArrEmpty == "[]"
NotJson == "not json"
Replies ==
    { <<ObjFull>>, <<FenceOpen, ObjFull, FenceClose>>, <<ObjEmpty>>,
      <<FenceOpen, ArrEmpty, FenceClose>>, <<NotJson>>, <<FenceOpen, FenceClose>> }

\* How the AI service behaves for one captioning call: the file upload fails,
\* the chat call raises, or it answers with a text.
AiBehaviours ==
    { [upload_ok |-> FALSE, chat_ok |-> TRUE, text |-> <<NotJson>>],
      [upload_ok |-> TRUE, chat_ok |-> FALSE, text |-> <<NotJson>>] }
    \cup { [upload_ok |-> TRUE, chat_ok |-> TRUE, text |-> t] : t \in Replies }

\* response.text.replace(fence json, empty).replace(fence, empty).strip()
StripFences(text) == SelectSeq(text, LAMBDA p : p # FenceOpen /\ p # FenceClose)

\* json.loads of a stripped text: the parsed value, or a JSONDecodeError.
JsonLoads(text) ==
    IF Len(text) = 1 /\ text[1] = ObjFull
    THEN [ok |-> TRUE, value |-> JsonObject({"title", "description"}, "Cat", "A cat.")]
    ELSE IF Len(text) = 1 /\ text[1] = ObjEmpty
    THEN [ok |-> TRUE, value |-> JsonObject({}, "", "")]
    ELSE IF Len(text) = 1 /\ text[1] = ArrEmpty
    THEN [ok |-> TRUE, value |-> JsonArray]
    ELSE [ok |-> FALSE, value |-> JsonArray]

\* os.path.splitext(filename)[0] + '.json'
JsonFilename(filename) == <<filename[1], ".json">>

\* os.path.join('/tmp', filename)
TmpPath(filename) == <<"/tmp">> \o filename

\* Every key of the bucket the requests can name.
Keys == Names \cup {JsonFilename(n) : n \in Names}

\* temp_cred_path of get_gcs_credentials
CredPath == <<"/tmp", "gcs_service_account", ".json">>

\* Every path under /tmp the program names.
Paths == {TmpPath(k) : k \in Keys} \cup {CredPath}

\* os.path.exists(path), with path possibly None
PathExists(fs, path) == path # NoPath /\ fs[path].kind # "absent"

\* --------------------------------------------- the source's functions

\* get_gcs_credentials without the raise of line 46: the failure to fetch the
\* AI key is logged and swallowed.
get_gcs_credentials_swallows(fs, secret_ok, gemini_ok) ==
    IF ~secret_ok
    THEN [raised |-> TRUE, fs |-> fs, env |-> NoPath, genai |-> FALSE, log |-> <<>>]
    ELSE [raised |-> FALSE, fs |-> [fs EXCEPT ![CredPath] = SecretFile],
          env |-> CredPath, genai |-> gemini_ok,
          log |-> IF gemini_ok
                  THEN <<"INFO Gemini AI API Key successfully configured.">>
                  ELSE <<"ERROR Failed to retrieve Gemini API Key">>]

\* get_gcs_credentials with the two secret fetches' outcomes: what it leaves
\* behind (the credential file, GOOGLE_APPLICATION_CREDENTIALS, the configured
\* AI key, the log) and whether it raised.
get_gcs_credentials(fs, secret_ok, gemini_ok) ==
    IF ~secret_ok
    THEN [raised |-> TRUE, fs |-> fs, env |-> NoPath, genai |-> FALSE, log |-> <<>>]
    ELSE IF ~gemini_ok
    THEN [raised |-> TRUE,
          fs |-> [fs EXCEPT ![CredPath] = SecretFile],
          env |-> CredPath, genai |-> FALSE,
          log |-> <<"ERROR Failed to retrieve Gemini API Key">>]
    ELSE [raised |-> FALSE,
          fs |-> [fs EXCEPT ![CredPath] = SecretFile],
          env |-> CredPath, genai |-> TRUE,
          log |-> <<"INFO Gemini AI API Key successfully configured.">>]

\* initialize_clients: storage.Client() is reached only when
\* get_gcs_credentials returns.
initialize_clients(fs, secret_ok, gemini_ok) ==
    LET c == get_gcs_credentials(fs, secret_ok, gemini_ok)
    IN  [raised |-> c.raised, fs |-> c.fs, env |-> c.env, genai |-> c.genai,
         log |-> c.log, client |-> IF c.raised THEN "none" ELSE "client"]

\* upload_to_gemini: the uploaded file handle, or None (FALSE here).  The
\* upload reads the local file, so it fails when the file is gone.
upload_to_gemini(fs, path, ai) == ai.upload_ok /\ PathExists(fs, path)

UploadError == JsonObject({"title", "description"}, "Upload Error",
                          "Failed to upload image to Gemini AI.")
InvalidResponse == JsonObject({"title", "description"}, "Invalid Response",
                              "Gemini AI returned an invalid response.")
OtherError == JsonObject({"title", "description"}, "Error",
                         "An error occurred while processing the image.")

\* generative_ai: the value it returns (it raises nothing).
generative_ai(fs, image_file, ai) ==
    IF ~upload_to_gemini(fs, image_file, ai) THEN UploadError
    ELSE IF ~ai.chat_ok THEN OtherError
    ELSE LET parsed == JsonLoads(StripFences(ai.text))
         IN  IF parsed.ok THEN parsed.value ELSE InvalidResponse

\* upload_to_gcs with `return True` in the except clause too: a failed write
\* is reported as a success.
upload_to_gcs_reports_success(store, fs, source_file, destination_blob_name, net_ok) ==
    IF net_ok /\ PathExists(fs, source_file)
    THEN [ok |-> TRUE,
          store |-> [store EXCEPT ![destination_blob_name] = fs[source_file]]]
    ELSE [ok |-> TRUE, store |-> store]

\* upload_to_gcs that creates objects and never overwrites one: a key that is
\* already stored keeps what it holds.
upload_to_gcs_create_only(store, fs, source_file, destination_blob_name, net_ok) ==
    IF net_ok /\ PathExists(fs, source_file)
    THEN [ok |-> TRUE,
          store |-> IF store[destination_blob_name].kind = "absent"
                    THEN [store EXCEPT ![destination_blob_name] = fs[source_file]]
                    ELSE store]
    ELSE [ok |-> FALSE, store |-> store]

\* upload_to_gcs: whether it reports success, and the bucket afterwards.
upload_to_gcs(store, fs, source_file, destination_blob_name, net_ok) ==
    IF net_ok /\ PathExists(fs, source_file)
    THEN [ok |-> TRUE,
          store |-> [store EXCEPT ![destination_blob_name] = fs[source_file]]]
    ELSE [ok |-> FALSE, store |-> store]

\* A signed URL of a blob, and None.
NoUrl == <<>>
SignedUrl(blob_name) == <<"https://signed">> \o blob_name

\* generate_temporary_url
generate_temporary_url(store, blob_name, sign_ok) ==
    IF store[blob_name].kind = "absent" THEN NoUrl
    ELSE IF sign_ok THEN SignedUrl(blob_name)
    ELSE NoUrl

\* A finally block that removes the image file and forgets the metadata file.
Cleanup_skips_json(fs, temp_path, json_path) ==
    IF PathExists(fs, temp_path) THEN [fs EXCEPT ![temp_path] = NoFile] ELSE fs

\* The finally block of upload(): the files under /tmp afterwards.
Cleanup(fs, temp_path, json_path) ==
    LET fs1 == IF PathExists(fs, temp_path)
               THEN [fs EXCEPT ![temp_path] = NoFile] ELSE fs
    IN  IF PathExists(fs1, json_path)
        THEN [fs1 EXCEPT ![json_path] = NoFile] ELSE fs1

\* ---------------------------------------------------------------- state

VARIABLES
    bucket_name,     \* the module's bucket_name (GCS_BUCKET_NAME at import)
    phase,           \* "boot" before the module body ran, then "ready" or "failed"
    storage_client,  \* the module's storage_client: "none" or "client"
    cred_env,        \* os.environ["GOOGLE_APPLICATION_CREDENTIALS"], or NoPath
    genai_key,       \* whether genai.configure(api_key=...) was called
    init_log,        \* what initialization logged
    gcs,             \* the bucket: key -> what the object holds
    tmp,             \* the files under /tmp: path -> what the file holds
    req,             \* per worker thread, the request it handles and its locals
    n_uploads,       \* upload requests that passed validation so far
    last_upload,     \* the upload request that returned last: its file name, response,
                     \* title and description, whether image and metadata were stored
                     \* under its file name when it arrived, and the metadata then
    last_put         \* the thread whose storage write succeeded last (0: none)

vars == <<bucket_name, phase, storage_client, cred_env, genai_key, init_log,
          gcs, tmp, req, n_uploads, last_upload, last_put>>

\* A thread that handles nothing, and the fields of a request: the inputs
\* (kind, has_file, filename, bytes), upload()'s and view_image()'s locals
\* (temp_path, json_path, title, description, image_url), the response
\* (status, body; status 0 while the handler runs), and what the request did:
\* the outcome of each storage write (put_image, put_json: "none" when not
\* attempted), whether the finally block ran (cleaned), whether a signed URL
\* was asked for (signed), the bucket as the request found it (gcs0), how the
\* AI service behaved for it (ai) and the step of the try block that raised
\* (failed_at).
NoAi == [upload_ok |-> FALSE, chat_ok |-> FALSE, text |-> <<>>]
IdleReq ==
    [kind |-> "none", pc |-> "idle", has_file |-> FALSE, filename |-> EmptyName,
     bytes |-> "", temp_path |-> NoPath, json_path |-> NoPath,
     title |-> "", description |-> "", image_url |-> NoUrl,
     status |-> 0, body |-> "", put_image |-> "none", put_json |-> "none",
     cleaned |-> FALSE, signed |-> FALSE, gcs0 |-> [k \in Keys |-> NoFile],
     ai |-> NoAi, failed_at |-> ""]

NoUpload ==
    [valid |-> FALSE, filename |-> EmptyName, status |-> 0, title |-> "",
     description |-> "", was_stored |-> FALSE, before |-> NoFile]

Init ==
    /\ bucket_name \in BucketNames
    /\ phase = "boot"
    /\ storage_client = "none"
    /\ cred_env = NoPath
    /\ genai_key = FALSE
    /\ init_log = <<>>
    /\ gcs = [k \in Keys |-> NoFile]
    /\ tmp = [p \in Paths |-> NoFile]
    /\ req = [s \in Threads |-> IdleReq]
    /\ n_uploads = 0
    /\ last_upload = NoUpload
    /\ last_put = 0

\* ------------------------------------------------------- initialization

\* The module body, lines 13 to 55: storage_client = initialize_clients().
\* An exception there ends the import; the application serves nothing.
Boot ==
    /\ phase = "boot"
    /\ \E secret_ok \in BOOLEAN, gemini_ok \in BOOLEAN :
          LET r == initialize_clients(tmp, secret_ok, gemini_ok)
          IN  /\ phase' = IF r.raised THEN "failed" ELSE "ready"
              /\ storage_client' = r.client
              /\ tmp' = r.fs
              /\ cred_env' = r.env
              /\ genai_key' = r.genai
              /\ init_log' = r.log
    /\ UNCHANGED <<bucket_name, gcs, req, n_uploads, last_upload, last_put>>

\* ------------------------------------------------------------ requests

Free(s) == req[s].pc \in {"idle", "done"}

\* A request is taken by the first free thread among the n the server runs.
CanTake(s, n) == s <= n /\ Free(s) /\ \A t \in Threads : t < s => ~Free(t)

\* What a POST /upload carries: no 'image' part, a part with an empty file
\* name, or a named file.
Forms ==
    { [has_file |-> FALSE, filename |-> EmptyName, bytes |-> ""],
      [has_file |-> TRUE, filename |-> EmptyName, bytes |-> ""] }
    \cup { [has_file |-> TRUE, filename |-> f, bytes |-> b] : f \in Names, b \in Bytes }

\* How a write of a local file ends: done, or an exception that leaves no new
\* content behind, or one that leaves the file half written.
WriteOutcomes == {"ok", "fail_untouched", "fail_partial"}

Respond(r, status, body) == [r EXCEPT !.pc = "done", !.status = status, !.body = body]

\* upload() without the check of line 152: request.files['image'] raises for a
\* form with no 'image' part, and the except clause answers 500.
UploadValidate_no_part_check(bucket, form) ==
    IF bucket = "None" THEN [status |-> 500, body |-> "GCS_BUCKET_NAME is not set"]
    ELSE IF ~form.has_file THEN [status |-> 500, body |-> "Internal Server Error"]
    ELSE IF form.filename = EmptyName THEN [status |-> 400, body |-> "No file selected"]
    ELSE [status |-> 0, body |-> ""]

\* upload(), lines 146 to 157: the bucket check and the validation of the form.
\* The status it returns there, or 0 when the request goes on to be saved.
UploadValidate(bucket, form) ==
    IF bucket = "None" THEN [status |-> 500, body |-> "GCS_BUCKET_NAME is not set"]
    ELSE IF ~form.has_file THEN [status |-> 400, body |-> "No file uploaded"]
    ELSE IF form.filename = EmptyName THEN [status |-> 400, body |-> "No file selected"]
    ELSE [status |-> 0, body |-> ""]

UploadReceive(s, n) ==
    /\ phase = "ready"
    /\ CanTake(s, n)
    /\ \E form \in Forms :
          LET v == UploadValidate(bucket_name, form)
              r == [IdleReq EXCEPT !.kind = "upload", !.has_file = form.has_file,
                                   !.filename = form.filename, !.bytes = form.bytes,
                                   !.gcs0 = gcs]
          IN  IF v.status # 0
              THEN /\ req' = [req EXCEPT ![s] = Respond(r, v.status, v.body)]
                   /\ UNCHANGED n_uploads
              ELSE /\ n_uploads < MaxUploads
                   /\ n_uploads' = n_uploads + 1
                   /\ req' = [req EXCEPT ![s] = [r EXCEPT !.pc = "save"]]
    /\ UNCHANGED <<bucket_name, phase, storage_client, cred_env, genai_key,
                   init_log, gcs, tmp, last_upload, last_put>>

\* The except clause of upload(), line 179: any exception in the try block
\* becomes the 500 that is returned once the finally block has run.
Raise(r, step) ==
    [r EXCEPT !.pc = "cleanup", !.status = 500, !.body = "Internal Server Error",
              !.failed_at = step]

\* A local file after a write of `content` that ended as `outcome`.
WriteFile(fs, path, content, outcome) ==
    IF outcome = "ok" THEN [fs EXCEPT ![path] = content]
    ELSE IF outcome = "fail_partial" THEN [fs EXCEPT ![path] = PartialFile]
    ELSE fs

\* Lines 160 and 161: temp_path is set, then file.save(temp_path).
UploadSave(s) ==
    /\ req[s].kind = "upload" /\ req[s].pc = "save"
    /\ \E outcome \in WriteOutcomes :
          LET r == [req[s] EXCEPT !.temp_path = TmpPath(req[s].filename)]
          IN  /\ tmp' = WriteFile(tmp, r.temp_path, ImageFile(r.bytes), outcome)
              /\ req' = [req EXCEPT ![s] =
                            IF outcome = "ok" THEN [r EXCEPT !.pc = "caption"]
                            ELSE Raise(r, "save")]
    /\ UNCHANGED <<bucket_name, phase, storage_client, cred_env, genai_key,
                   init_log, gcs, n_uploads, last_upload, last_put>>

\* Lines 164 to 166: the AI response and its title and description.  A
\* response that is no dict has no .get: an AttributeError.
UploadCaption(s) ==
    /\ req[s].kind = "upload" /\ req[s].pc = "caption"
    /\ \E ai \in AiBehaviours :
          LET ai_response == generative_ai(tmp, req[s].temp_path, ai)
          IN  req' = [req EXCEPT ![s] =
                        IF ai_response.type = "object"
                        THEN [@ EXCEPT
                                !.pc = "write_json", !.ai = ai,
                                !.title = DictGet(ai_response, "title", "No title present"),
                                !.description = DictGet(ai_response, "description",
                                                        "No description present")]
                        ELSE Raise([@ EXCEPT !.ai = ai], "caption")]
    /\ UNCHANGED <<bucket_name, phase, storage_client, cred_env, genai_key,
                   init_log, gcs, tmp, n_uploads, last_upload, last_put>>

\* Lines 169 to 173: json_path is set, then the metadata is written to it.
UploadWriteJson(s) ==
    /\ req[s].kind = "upload" /\ req[s].pc = "write_json"
    /\ \E outcome \in WriteOutcomes :
          LET r == [req[s] EXCEPT !.json_path = TmpPath(JsonFilename(req[s].filename))]
          IN  /\ tmp' = WriteFile(tmp, r.json_path,
                                  JsonDump(r.title, r.description), outcome)
              /\ req' = [req EXCEPT ![s] =
                            IF outcome = "ok" THEN [r EXCEPT !.pc = "put_image"]
                            ELSE Raise(r, "write_json")]
    /\ UNCHANGED <<bucket_name, phase, storage_client, cred_env, genai_key,
                   init_log, gcs, n_uploads, last_upload, last_put>>

\* Both writes made before either result is tested: a failed write still sets
\* the 500, and the next write is attempted all the same.
AfterPut_no_short_circuit(r, ok, next) ==
    IF ok THEN [r EXCEPT !.pc = next]
    ELSE [r EXCEPT !.pc = next, !.status = 500, !.body = "File upload failed"]

\* Line 176 and 177: where upload() goes after a storage write that reported
\* `ok`: on to `next`, or to the finally block with "File upload failed".
AfterPut(r, ok, next) ==
    IF ok THEN [r EXCEPT !.pc = next]
    ELSE [r EXCEPT !.pc = "cleanup", !.status = 500, !.body = "File upload failed"]

\* Line 176, left operand: upload_to_gcs(bucket_name, temp_path, file.filename)
UploadPutImage(s) ==
    /\ req[s].kind = "upload" /\ req[s].pc = "put_image"
    /\ \E net_ok \in BOOLEAN :
          LET w == upload_to_gcs(gcs, tmp, req[s].temp_path, req[s].filename, net_ok)
          IN  /\ gcs' = w.store
              /\ last_put' = IF w.ok THEN s ELSE last_put
              /\ req' = [req EXCEPT ![s] =
                            AfterPut([@ EXCEPT !.put_image = IF w.ok THEN "ok" ELSE "failed"],
                                     w.ok, "put_json")]
    /\ UNCHANGED <<bucket_name, phase, storage_client, cred_env, genai_key,
                   init_log, tmp, n_uploads, last_upload>>

\* Line 176, right operand: upload_to_gcs(bucket_name, json_path, json_filename)
UploadPutJson(s) ==
    /\ req[s].kind = "upload" /\ req[s].pc = "put_json"
    /\ \E net_ok \in BOOLEAN :
          LET w == upload_to_gcs(gcs, tmp, req[s].json_path,
                                 JsonFilename(req[s].filename), net_ok)
          IN  /\ gcs' = w.store
              /\ last_put' = IF w.ok THEN s ELSE last_put
              /\ req' = [req EXCEPT ![s] =
                            AfterPut([@ EXCEPT !.put_json = IF w.ok THEN "ok" ELSE "failed"],
                                     w.ok, "cleanup")]
    /\ UNCHANGED <<bucket_name, phase, storage_client, cred_env, genai_key,
                   init_log, tmp, n_uploads, last_upload>>

\* Lines 183 to 190: the finally block, then the response: the one an earlier
\* return or the except clause set, or the redirect of line 190.
UploadCleanup(s) ==
    /\ req[s].kind = "upload" /\ req[s].pc = "cleanup"
    /\ tmp' = Cleanup(tmp, req[s].temp_path, req[s].json_path)
    /\ LET r == [req[s] EXCEPT !.cleaned = TRUE]
           done == IF r.status = 0 THEN Respond(r, 302, "redirect to view_image")
                   ELSE Respond(r, r.status, r.body)
       IN  /\ req' = [req EXCEPT ![s] = done]
           /\ last_upload' = [valid |-> TRUE, filename |-> done.filename,
                              status |-> done.status, title |-> done.title,
                              description |-> done.description,
                              was_stored |->
                                  /\ done.gcs0[done.filename].kind # "absent"
                                  /\ done.gcs0[JsonFilename(done.filename)].kind # "absent",
                              before |-> done.gcs0[JsonFilename(done.filename)]]
    /\ UNCHANGED <<bucket_name, phase, storage_client, cred_env, genai_key,
                   init_log, gcs, n_uploads, last_put>>

\* request.args.get('filename'): None (NoPath here), '' or a file name.
ViewArgs == {NoPath, EmptyName} \cup Names

\* json.loads(blob.download_as_text()) of a metadata object json.dump wrote.
JsonLoadsFile(content) ==
    JsonObject({"title", "description"}, content.title, content.description)

\* The existence check made on the image's key instead of the metadata's.
MetadataExists_checks_image(store, filename) == store[filename].kind # "absent"

\* Lines 200 to 204: blob.exists() of the metadata object.
MetadataExists(store, filename) == store[JsonFilename(filename)].kind # "absent"

\* view_image(), lines 195 to 225: the response, and whether it asked for a
\* signed URL.  With no bucket name the storage library raises on the first
\* call that needs the bucket's path (blob.exists(), line 204); nothing
\* catches it and the server answers 500.
view_image(store, bucket, filename, sign_ok) ==
    LET resp(status, body) ==
            [status |-> status, body |-> body, title |-> "", description |-> "",
             image_url |-> NoUrl, signed |-> FALSE]
    IN  IF filename = NoPath \/ filename = EmptyName
        THEN resp(400, "No file specified")
        ELSE IF bucket = "None"
        THEN resp(500, "Internal Server Error")
        ELSE IF ~MetadataExists(store, filename)
        THEN resp(404, "Metadata not found")
        ELSE IF store[JsonFilename(filename)].kind # "json"
        THEN resp(500, "Invalid metadata format")
        ELSE LET json_data == JsonLoadsFile(store[JsonFilename(filename)])
                 temp_url == generate_temporary_url(store, filename, sign_ok)
             IN  IF temp_url = NoUrl
                 THEN [resp(500, "Error generating image URL") EXCEPT !.signed = TRUE]
                 ELSE [status |-> 200, body |-> "view.html",
                       title |-> DictGet(json_data, "title", "No title available"),
                       description |-> DictGet(json_data, "description",
                                               "No description available"),
                       image_url |-> temp_url, signed |-> TRUE]

\* GET /view: it reads the bucket and writes nothing, one step.
View(s, n) ==
    /\ phase = "ready"
    /\ CanTake(s, n)
    /\ \E filename \in ViewArgs, sign_ok \in BOOLEAN :
          LET v == view_image(gcs, bucket_name, filename, sign_ok)
          IN  req' = [req EXCEPT ![s] =
                        [IdleReq EXCEPT !.kind = "view", !.pc = "done",
                                        !.filename = IF filename = NoPath
                                                     THEN EmptyName ELSE filename,
                                        !.has_file = filename # NoPath,
                                        !.status = v.status, !.body = v.body,
                                        !.title = v.title, !.description = v.description,
                                        !.image_url = v.image_url, !.signed = v.signed,
                                        !.gcs0 = gcs]]
    /\ UNCHANGED <<bucket_name, phase, storage_client, cred_env, genai_key,
                   init_log, gcs, tmp, n_uploads, last_upload, last_put>>

\* ------------------------------------------------------- specifications

\* The server with n worker threads.
Serve(n) ==
    \/ Boot
    \/ \E s \in Threads :
          \/ UploadReceive(s, n)
          \/ UploadSave(s)
          \/ UploadCaption(s)
          \/ UploadWriteJson(s)
          \/ UploadPutImage(s)
          \/ UploadPutJson(s)
          \/ UploadCleanup(s)
          \/ View(s, n)

\* Requests handled one at a time, each from its arrival to its response.
Next == Serve(1)
Spec == Init /\ [][Next]_vars

\* Two upload requests race: each of the two threads takes one request, the
\* second while the first is still being handled, and their steps interleave.
NextConc ==
    \/ Boot
    \/ \E s \in Threads :
          \/ req[s].pc = "idle" /\ UploadReceive(s, 2)
          \/ UploadSave(s)
          \/ UploadCaption(s)
          \/ UploadWriteJson(s)
          \/ UploadPutImage(s)
          \/ UploadPutJson(s)
          \/ UploadCleanup(s)
SpecConc == Init /\ [][NextConc]_vars

\* ---------------------------------------------------------------- claims

EmptyBucket == [k \in Keys |-> NoFile]
IsUpload(s) == req[s].kind = "upload"
IsView(s) == req[s].kind = "view"
Done(s) == req[s].pc = "done"
Stored(store, k) == store[k].kind # "absent"

\* A form with no 'image' part, or with a part whose file name is empty.
BadForm(r) == ~r.has_file \/ r.filename = EmptyName

\* C2, as claimed: in every reachable state, whatever the bucket name is, a
\* POST /upload with no 'image' part or with an empty file name returns 400
\* and leaves the bucket as it found it.
C2_Original ==
    \A s \in Threads :
        (IsUpload(s) /\ Done(s) /\ BadForm(req[s]))
            => (req[s].status = 400 /\ gcs = req[s].gcs0)

\* C2, amended: a POST /upload with no 'image' part or with an empty file name
\* leaves the bucket and /tmp as it found them and never reaches the cleanup
\* of a saved file; it returns 400 when the bucket name is configured, and 500
\* ("GCS_BUCKET_NAME is not set") when it is not, the bucket check coming first.
C2_BadFormRejected ==
    \A s \in Threads :
        (IsUpload(s) /\ Done(s) /\ BadForm(req[s]))
            => /\ gcs = req[s].gcs0
               /\ req[s].temp_path = NoPath /\ req[s].json_path = NoPath
               /\ req[s].put_image = "none" /\ req[s].put_json = "none"
               /\ req[s].status = (IF bucket_name = "None" THEN 500 ELSE 400)
               /\ req[s].body = (IF bucket_name = "None" THEN "GCS_BUCKET_NAME is not set"
                                 ELSE IF ~req[s].has_file THEN "No file uploaded"
                                 ELSE "No file selected")

\* A form with no 'image' part was answered 400 while the bucket held objects.
C2_Witness ==
    \E s \in Threads :
        /\ IsUpload(s) /\ Done(s) /\ ~req[s].has_file
        /\ req[s].status = 400
        /\ gcs # EmptyBucket

AiKeyFetchFailed == phase # "boot" /\ PathExists(tmp, CredPath) /\ ~genai_key

\* C7, as claimed: when the storage credential is fetched and the fetch of the
\* AI key fails, the failure is logged and raised to the caller of
\* initialization, and the storage client is still created and usable.
C7_Original ==
    AiKeyFetchFailed
        => /\ init_log = <<"ERROR Failed to retrieve Gemini API Key">>
           /\ phase = "failed"
           /\ storage_client = "client"

\* C7, amended: when the storage credential is fetched and the fetch of the AI
\* key fails, the failure is logged and raised to the caller of
\* initialization; the credential file and GOOGLE_APPLICATION_CREDENTIALS stay
\* set, but the storage client is never created and no request is served.
C7_AiKeyFailureIsFatal ==
    AiKeyFetchFailed
        => /\ init_log = <<"ERROR Failed to retrieve Gemini API Key">>
           /\ phase = "failed"
           /\ cred_env = CredPath
           /\ storage_client = "none"
           /\ \A s \in Threads : req[s] = IdleReq

C7_Witness == AiKeyFetchFailed /\ phase = "failed"

\* What a request's writes put in the bucket: its image and its metadata.
ImageOf(r) == ImageFile(r.bytes)
MetadataOf(r) == JsonDump(r.title, r.description)

\* C8: in the persisting step the image is written first and the metadata
\* second, and the metadata write is not attempted after a failed image write;
\* a write that reports failure makes the request return 500, never 302; an
\* image written in a request whose metadata write then fails stays in the
\* bucket; and a request that fails changes at most the object under its own
\* file name.
C8_PersistOrderNoRollback ==
    \A s \in Threads :
        IsUpload(s) =>
            LET r == req[s]
                f == r.filename
            IN  /\ r.put_json # "none" => r.put_image = "ok"
                /\ r.put_image # "none" => r.pc \in {"put_json", "cleanup", "done"}
                /\ (r.put_image = "failed" \/ r.put_json = "failed")
                       => (r.status = 500 /\ r.body = "File upload failed"
                           /\ r.pc \in {"cleanup", "done"})
                /\ (Done(s) /\ r.status = 302)
                       => (r.put_image = "ok" /\ r.put_json = "ok")
                /\ (r.put_image = "ok" /\ r.put_json = "failed")
                       => (gcs[f] = ImageOf(r)
                           /\ gcs[JsonFilename(f)] = r.gcs0[JsonFilename(f)])
                /\ (Done(s) /\ r.status # 302)
                       => \A k \in Keys \ {f} : gcs[k] = r.gcs0[k]

\* A request returned 500 after its image replaced the stored one and its
\* metadata write failed: the new image is stored beside the old metadata.
C8_Witness ==
    \E s \in Threads :
        /\ IsUpload(s) /\ Done(s) /\ req[s].status = 500
        /\ req[s].put_image = "ok" /\ req[s].put_json = "failed"
        /\ Stored(req[s].gcs0, req[s].filename)
        /\ Stored(gcs, JsonFilename(req[s].filename))
        /\ gcs[req[s].filename] # req[s].gcs0[req[s].filename]

\* A step of thread s's upload request after its validation.
UploadStep(s) ==
    \/ UploadSave(s) \/ UploadCaption(s) \/ UploadWriteJson(s)
    \/ UploadPutImage(s) \/ UploadPutJson(s) \/ UploadCleanup(s)

\* The request passed the validation of lines 146 to 157.
Validated(r) ==
    /\ r.kind = "upload"
    /\ r.pc # "idle"
    /\ r.pc = "done" => r.temp_path # NoPath

\* C9: an upload request that passed validation cannot stop before the cleanup
\* step, whether saving, captioning or persisting succeeds, reports a storage
\* failure or raises; when it returns the finally block has run and neither
\* its temporary image file nor its temporary metadata file exists.
C9_CleanupAlwaysRuns ==
    \A s \in Threads :
        Validated(req[s]) =>
            /\ ~Done(s) => ENABLED UploadStep(s)
            /\ Done(s) =>
                  /\ req[s].cleaned
                  /\ ~PathExists(tmp, req[s].temp_path)
                  /\ ~PathExists(tmp, req[s].json_path)
                  /\ \A k \in Keys : ~PathExists(tmp, TmpPath(k))

\* A request whose metadata file was left half written by an exception has
\* returned 500, and /tmp holds none of its files.
C9_Witness ==
    \E s \in Threads :
        /\ IsUpload(s) /\ Done(s) /\ req[s].failed_at = "write_json"
        /\ req[s].status = 500 /\ req[s].cleaned
        /\ req[s].temp_path # NoPath /\ req[s].json_path # NoPath
        /\ \A k \in Keys : ~PathExists(tmp, TmpPath(k))

\* The text holds the piece p.
Holds(text, p) == \E i \in 1..Len(text) : text[i] = p

\* The title and description of a captioned request are those the outcome of
\* the AI service calls for: the sentinel of the failure, or the fields of the
\* object the text holds (a field it lacks replaced by its placeholder).
CaptionMatchesOutcome(r) ==
    /\ ~r.ai.upload_ok
          => MetadataOf(r) = JsonDump("Upload Error",
                                      "Failed to upload image to Gemini AI.")
    /\ (r.ai.upload_ok /\ ~r.ai.chat_ok)
          => MetadataOf(r) = JsonDump("Error",
                                      "An error occurred while processing the image.")
    /\ (r.ai.upload_ok /\ r.ai.chat_ok /\ Holds(r.ai.text, NotJson))
          => MetadataOf(r) = JsonDump("Invalid Response",
                                      "Gemini AI returned an invalid response.")
    /\ (r.ai.upload_ok /\ r.ai.chat_ok /\ Holds(r.ai.text, ObjFull))
          => MetadataOf(r) = JsonDump("Cat", "A cat.")
    /\ (r.ai.upload_ok /\ r.ai.chat_ok /\ Holds(r.ai.text, ObjEmpty))
          => MetadataOf(r) = JsonDump("No title present", "No description present")

\* Thread s answered a GET /view?filename=f, f being the file name of the
\* upload request that returned last, and that request ended in the redirect.
ViewAfterUpload(s) ==
    /\ IsView(s) /\ Done(s)
    /\ last_upload.valid /\ last_upload.status = 302
    /\ req[s].filename = last_upload.filename

\* The view shows the title and description the last upload computed.
ShowsLastUpload(s) ==
    /\ req[s].status = 200
    /\ req[s].title = last_upload.title
    /\ req[s].description = last_upload.description
    /\ req[s].image_url = SignedUrl(req[s].filename)

\* The view failed at the signed URL and shows no title and no description.
FailsAtSignedUrl(s) ==
    /\ req[s].status = 500 /\ req[s].body = "Error generating image URL"
    /\ req[s].signed
    /\ req[s].title = "" /\ req[s].description = "" /\ req[s].image_url = NoUrl

WasStored(r) == Stored(r.gcs0, r.filename) /\ Stored(r.gcs0, JsonFilename(r.filename))

\* The view shows the metadata stored before the last upload, and that
\* differs from the last upload's.
ShowsEarlierMetadata(s) ==
    /\ last_upload.before # JsonDump(last_upload.title, last_upload.description)
    /\ req[s].title = last_upload.before.title
    /\ req[s].description = last_upload.before.description

C5_Original ==
    \A s \in Threads :
        (IsUpload(s) /\ Done(s) /\ req[s].status = 302)
            => \A f \in Names \ {req[s].filename} :
                  (Stored(req[s].gcs0, f) /\ Stored(req[s].gcs0, JsonFilename(f)))
                      => gcs[JsonFilename(f)] = req[s].gcs0[JsonFilename(f)]

\* C6, as claimed: for every behaviour of the AI service, the upload pipeline
\* obtains a title and a description from the captioning step and goes on to
\* the persisting step: no request fails at captioning.
C6_Original ==
    \A s \in Threads :
        (IsUpload(s) /\ req[s].ai # NoAi)
            => /\ req[s].failed_at # "caption"
               /\ req[s].title # "" /\ req[s].description # ""

\* Both threads handled a POST /upload of the file name f, their steps
\* interleaved, and both requests ended in the redirect.
BothRedirected(f) ==
    \A s \in Threads :
        IsUpload(s) /\ Done(s) /\ req[s].status = 302 /\ req[s].filename = f

\* C10, as claimed: when two POST /upload requests for the same file name run
\* concurrently and both finish, the later writer wins: the image and the
\* metadata left in the bucket both come from the same request, the one whose
\* writes came last.
C10_Original ==
    \A f \in Names :
        BothRedirected(f)
            => /\ last_put \in Threads
               /\ gcs[f] = ImageOf(req[last_put])
               /\ gcs[JsonFilename(f)] = MetadataOf(req[last_put])

\* C10, amended: when two POST /upload requests for the same file name run
\* concurrently and both end in the redirect, the image left in the bucket is
\* the image of one of the two requests and the metadata left is the metadata
\* of one of the two; they need not come from the same request, nor from the
\* one whose write came last.
C10_EachObjectFromOneOfTheTwo ==
    \A f \in Names :
        BothRedirected(f)
            => /\ \E s \in Threads : gcs[f] = ImageOf(req[s])
               /\ \E s \in Threads : gcs[JsonFilename(f)] = MetadataOf(req[s])

\* Both requests ended in the redirect, and the bucket holds the image of one
\* beside the metadata of the other.
C10_Witness ==
    \E f \in Names :
        /\ BothRedirected(f)
        /\ ImageOf(req[1]) # ImageOf(req[2])
        /\ MetadataOf(req[1]) # MetadataOf(req[2])
        /\ \E s, t \in Threads :
              s # t /\ gcs[f] = ImageOf(req[s]) /\ gcs[JsonFilename(f)] = MetadataOf(req[t])

====
